---- MODULE Spec2Model ----
(***************************************************************************)
(* Model of the update path of SentimentAnalysisApp (src/app.py): the      *)
(* in-memory aggregates (apps_data), the per-application JSON documents,   *)
(* the backup files, the update log and the Streamlit session state.       *)
(*                                                                         *)
(* The class defines _save_updated_data twice (lines 762 and 982); Python  *)
(* binds the name to the later definition, so it is the one modelled.      *)
(* A failing file operation is modelled as the call raising before it has  *)
(* changed the file.                                                       *)
(***************************************************************************)
EXTENDS Integers, Sequences, FiniteSets, TLC

\* ---------------------------------------------------------------- bounds
NumApps == 1
NumFeatures == 2
MaxSteps == 3
MaxAuditUpdates == 102
AuditFaultWindow == 2
MaxCount == 16
MaxShortLog == 2
MaxLogLen == 24
EvictStrides == 2

\* ------------------------------------------------------ program constants
AppNames == <<"Mazii", "Obenkyo", "Hey Japan", "JA Sensei", "Migii JLPT", "Kanji Study">>
FeatureNames == <<"kanji", "kotoba", "bunpou">>
LogCap == 100
MinChars == 10
MaxChars == 500
ExcerptChars == 100
EllipsisChars == 3

Min(a, b) == IF a < b THEN a ELSE b

Apps == {AppNames[i] : i \in 1..Min(NumApps, Len(AppNames))}
Features == {FeatureNames[i] : i \in 1..Min(NumFeatures, Len(FeatureNames))}
Sentiments == {"positive", "negative"}

Counters(p, n) == [positive |-> p, negative |-> n]
ZeroCounters == Counters(0, 0)

\* get_fallback_data: the built-in seed table
get_fallback_data(app_name) ==
  CASE app_name = "Mazii" ->
         [kanji |-> Counters(57, 0), kotoba |-> Counters(32, 0), bunpou |-> Counters(26, 0)]
    [] app_name = "Obenkyo" ->
         [bunpou |-> Counters(5, 0), kanji |-> Counters(29, 0), kotoba |-> Counters(14, 0)]
    [] app_name = "Hey Japan" ->
         [kotoba |-> Counters(66, 0), kanji |-> Counters(45, 0), bunpou |-> Counters(12, 0)]
    [] app_name = "JA Sensei" ->
         [kanji |-> Counters(8, 0), kotoba |-> Counters(3, 0), bunpou |-> Counters(6, 0)]
    [] app_name = "Migii JLPT" ->
         [kotoba |-> Counters(10, 0), bunpou |-> Counters(6, 0), kanji |-> Counters(18, 0)]
    [] app_name = "Kanji Study" ->
         [kanji |-> Counters(187, 0), bunpou |-> Counters(12, 0), kotoba |-> Counters(33, 1)]
    [] OTHER -> << >>

\* The document a data file holds when it exists at the start: one feature
\* only, so that the other features are created by the first update of them.
\* Where the file does not exist the seed table is used.
InitialDocuments(app_name) ==
  { [kanji |-> Counters(5, 2)] }

\* Feature lists a prediction may carry: the predictor reports each tag at
\* most once, in the order of its tag table; the manual mode yields the
\* one-element list [selected_feature_mode].
RECURSIVE SubSeqsFrom(_)
SubSeqsFrom(i) ==
  IF i > Len(FeatureNames) \/ i > NumFeatures THEN { << >> }
  ELSE LET rest == SubSeqsFrom(i + 1)
       IN  rest \cup { <<FeatureNames[i]>> \o r : r \in rest }
FeatureLists == SubSeqsFrom(1)

VARIABLES
  apps_data,      \* self.apps_data: application -> feature -> counters
  docs,           \* data/raw/hasil_sentimen_<app>_agregat.json, existing files only
  backups,        \* data/backups/backup_<app>_<timestamp>.json, existing files only
  log,            \* data/update_log.json: [exists, entries]
  session_state,  \* st.session_state
  now,            \* wall clock, in seconds
  call,           \* what the last handler was given, did and showed
  appended,       \* every entry that a log write has stored, in order
  returned,       \* values _save_updated_data has returned, by write outcome
  nCalls,         \* number of _update_app_data calls so far
  procs,          \* concurrent script runs: position and local data of each
  ui,             \* the live-prediction page: text typed, buttons rendered
  listing         \* what create_update_history displayed last

vars == <<apps_data, docs, backups, log, session_state, now, call, appended, returned,
          nCalls, procs, ui, listing>>

\* ------------------------------------------------------------ file names
\* load_all_data's table of data files
data_files(app_name) ==
  CASE app_name = "Mazii" -> "data/raw/hasil_sentimen_mazii_agregat.json"
    [] app_name = "Obenkyo" -> "data/raw/hasil_sentimen_obenkyo_agregat.json"
    [] app_name = "Hey Japan" -> "data/raw/hasil_sentimen_heyjapan_agregat.json"
    [] app_name = "JA Sensei" -> "data/raw/hasil_sentimen_jasensei_agregat.json"
    [] app_name = "Migii JLPT" -> "data/raw/hasil_sentimen_migiijlpt_agregat.json"
    [] app_name = "Kanji Study" -> "data/raw/hasil_sentimen_kanjistudy_agregat.json"

\* app_name.lower().replace(' ', '')
LowerNoSpace(app_name) ==
  CASE app_name = "Mazii" -> "mazii"
    [] app_name = "Obenkyo" -> "obenkyo"
    [] app_name = "Hey Japan" -> "heyjapan"
    [] app_name = "JA Sensei" -> "jasensei"
    [] app_name = "Migii JLPT" -> "migiijlpt"
    [] app_name = "Kanji Study" -> "kanjistudy"

\* f"data/raw/hasil_sentimen_{...}_agregat.json" of _save_updated_data
app_filename(app_name) ==
  "data/raw/hasil_sentimen_" \o LowerNoSpace(app_name) \o "_agregat.json"

\* f"{backup_dir}/backup_{app_name}_{timestamp}.json"; the timestamp is
\* datetime.now() formatted to the second
backup_filename(app_name, t) == <<"data/backups/backup", app_name, t>>

\* ------------------------------------------------------- pure functions
Put(fn, k, v) == [x \in DOMAIN fn \cup {k} |-> IF x = k THEN v ELSE fn[x]]
Remove(fn, k) == [x \in DOMAIN fn \ {k} |-> fn[x]]

\* data.get(feature, {}).get(sentiment, 0)
GetCount(agg, feature, sentiment) ==
  IF feature \in DOMAIN agg THEN agg[feature][sentiment] ELSE 0

\* the loop of load_all_data over the entries 'apps' of its file table: the
\* document where the file exists, the seed otherwise
LoadData(apps, files) ==
  [a \in apps |-> IF data_files(a) \in DOMAIN files
                  THEN files[data_files(a)]
                  ELSE get_fallback_data(a)]

\* load_all_data, for the applications explored
load_all_data(files) == LoadData(Apps, files)

\* the loop body with the sentiment test lost: every review counts as positive
IncrementFeatureAlwaysPositive(agg, feature, sentiment) ==
  LET a1 == IF feature \notin DOMAIN agg THEN Put(agg, feature, ZeroCounters) ELSE agg
  IN  Put(a1, feature, [a1[feature] EXCEPT !.positive = @ + 1])

\* one pass of the loop body of _update_app_data
IncrementFeature(agg, feature, sentiment) ==
  LET a1 == IF feature \notin DOMAIN agg THEN Put(agg, feature, ZeroCounters) ELSE agg
  IN  IF sentiment = "positive"
      THEN Put(a1, feature, [a1[feature] EXCEPT !.positive = @ + 1])
      ELSE Put(a1, feature, [a1[feature] EXCEPT !.negative = @ + 1])

\* the loop over detected_features
RECURSIVE IncrementAll(_, _, _)
IncrementAll(agg, feats, sentiment) ==
  IF feats = << >> THEN agg
  ELSE IncrementAll(IncrementFeature(agg, Head(feats), sentiment), Tail(feats), sentiment)

\* the in-memory part of _update_app_data
UpdateInMemory(data, app, feats, sentiment) ==
  LET d1 == IF app \notin DOMAIN data THEN Put(data, app, << >>) ELSE data
  IN  Put(d1, app, IncrementAll(d1[app], feats, sentiment))

\* round(num / den * 1000) to an integer, ties to even: the tenths of a
\* percent that format(x, ".1f") prints
RoundHalfEven(num, den) ==
  LET q == num \div den
      r == num % den
  IN  IF 2 * r < den THEN q
      ELSE IF 2 * r > den THEN q + 1
      ELSE IF q % 2 = 0 THEN q ELSE q + 1

\* int() in place of format(x, ".1f"): the digits after the first decimal
\* are cut off
PercentageTruncated(positive, negative) ==
  LET total == positive + negative
  IN  IF total > 0 THEN (positive * 1000) \div total ELSE 0

\* (positive / total * 100) if total > 0 else 0, in tenths of a percent
Percentage(positive, negative) ==
  LET total == positive + negative
  IN  IF total > 0 THEN RoundHalfEven(positive * 1000, total) ELSE 0

\* _show_updated_statistics: what is shown for each updated feature
ShownStatistics(app_data, updated_features) ==
  [f \in {updated_features[i] : i \in 1..Len(updated_features)} |->
     [positive |-> GetCount(app_data, f, "positive"),
      negative |-> GetCount(app_data, f, "negative"),
      percentage |-> Percentage(GetCount(app_data, f, "positive"),
                                GetCount(app_data, f, "negative"))]]

\* create_comparison_table: for every application a row with the percentage
\* and the total of each of the three features, "0.0%" and 0 for a feature
\* the application does not hold
ComparisonTable(data) ==
  [a \in DOMAIN data |->
     [f \in {FeatureNames[i] : i \in 1..Len(FeatureNames)} |->
        IF f \in DOMAIN data[a]
        THEN [percentage |-> Percentage(data[a][f].positive, data[a][f].negative),
              total |-> data[a][f].positive + data[a][f].negative]
        ELSE [percentage |-> 0, total |-> 0]]]

\* the preview with the sentiment test lost: every review is previewed as a
\* positive one
PreviewDataAlwaysPositive(data, app_name, feats, sentiment) ==
  LET current_data == IF app_name \in DOMAIN data THEN data[app_name] ELSE << >>
  IN  [f \in {feats[i] : i \in 1..Len(feats)} |->
         LET current_pos == GetCount(current_data, f, "positive")
             current_neg == GetCount(current_data, f, "negative")
         IN  [current_pos |-> current_pos, current_neg |-> current_neg,
              current_percentage |-> Percentage(current_pos, current_neg),
              new_pos |-> current_pos + 1, new_neg |-> current_neg,
              new_percentage |-> Percentage(current_pos + 1, current_neg)]]

\* _show_enhanced_data_update_preview: the row of each detected feature, counters and
\* percentage before and after the increment
PreviewData(data, app_name, feats, sentiment) ==
  LET current_data == IF app_name \in DOMAIN data THEN data[app_name] ELSE << >>
  IN  [f \in {feats[i] : i \in 1..Len(feats)} |->
         LET current_pos == GetCount(current_data, f, "positive")
             current_neg == GetCount(current_data, f, "negative")
             new_pos == current_pos + (IF sentiment = "positive" THEN 1 ELSE 0)
             new_neg == current_neg + (IF sentiment = "negative" THEN 1 ELSE 0)
         IN  [current_pos |-> current_pos, current_neg |-> current_neg,
              current_percentage |-> Percentage(current_pos, current_neg),
              new_pos |-> new_pos, new_neg |-> new_neg,
              new_percentage |-> Percentage(new_pos, new_neg)]]

\* logs[:100] in place of logs[-100:]
FirstN(s, n) == IF Len(s) <= n THEN s ELSE SubSeq(s, 1, n)

\* filtered_logs[:limit]
Prefix(logs, limit) == SubSeq(logs, 1, Min(limit, Len(logs)))

\* the filter value that keeps every entry
Semua == "Semua"

\* the options of the 'Tampilkan' select box
LimitOptions == {10, 25, 50, 100}

\* the entries whose timestamp is in 'stamps', newest timestamp first; the
\* sort is stable, so entries of one timestamp keep the order of the file
RECURSIVE NewestFirstOf(_, _)
NewestFirstOf(logs, stamps) ==
  IF stamps = {} THEN << >>
  ELSE LET newest == CHOOSE t \in stamps : \A u \in stamps : u <= t
           Stamped(e) == e.timestamp = newest
       IN  SelectSeq(logs, Stamped) \o NewestFirstOf(logs, stamps \ {newest})

\* logs.sort(key=lambda x: x['timestamp'], reverse=True)
SortNewestFirst(logs) ==
  NewestFirstOf(logs, {logs[i].timestamp : i \in 1..Len(logs)})

\* the two list comprehensions of create_update_history
FilterLogs(logs, app_filter, sentiment_filter) ==
  LET ByApp(e) == app_filter = Semua \/ e.app_name = app_filter
      BySentiment(e) == sentiment_filter = Semua \/ e.sentiment = sentiment_filter
  IN  SelectSeq(SelectSeq(logs, ByApp), BySentiment)

\* the limit applied to the sorted log before the filters
FilteredLogsLimitFirst(logs, app_filter, sentiment_filter, limit) ==
  FilterLogs(Prefix(SortNewestFirst(logs), limit), app_filter, sentiment_filter)

\* filtered_logs of create_update_history: sort, filter, then [:limit]
FilteredLogs(logs, app_filter, sentiment_filter, limit) ==
  Prefix(FilterLogs(SortNewestFirst(logs), app_filter, sentiment_filter), limit)

\* review_text stored whole, whatever its length
ReviewTextWhole(text) == [kept |-> text, ellipsis |-> FALSE]

\* logs[-100:]
LastN(s, n) == IF Len(s) <= n THEN s ELSE SubSeq(s, Len(s) - n + 1, Len(s))

\* A text is represented by its length.  text[:100] + "..." if len(text) >
\* 100 else text: how many characters of the text are kept and whether the
\* three dots follow them
ReviewText(text) ==
  IF text > ExcerptChars THEN [kept |-> ExcerptChars, ellipsis |-> TRUE]
  ELSE [kept |-> text, ellipsis |-> FALSE]

\* len() of a stored review_text
ReviewTextLen(rt) == rt.kept + (IF rt.ellipsis THEN EllipsisChars ELSE 0)

\* the log_entry dict of _save_updated_data
LogEntry(app_name, pd, backup_file) ==
  [timestamp |-> pd.timestamp, app_name |-> app_name, sentiment |-> pd.sentiment,
   features |-> pd.features, review_text |-> ReviewText(pd.text),
   backup_file |-> backup_file]

\* ----------------------------------------------------------- save step
\* The file operations of _save_updated_data, in program order; a fault
\* names the operation that raises.
Faults == {"none", "makedirs", "backupRead", "backupWrite", "docWrite", "logRead", "logWrite"}

FaultCanOccur(fault, app_name, files, lg) ==
  /\ fault \in {"backupRead", "backupWrite"} => app_filename(app_name) \in DOMAIN files
  /\ fault = "logRead" => lg.exists

\* _save_updated_data has no return statement on either path
SaveReturn(completed) == "None"

\* Python truthiness of the value tested by 'if success:'
Truthy(v) == v = "True"

\* the empty-list test dropped
NoFeaturesNever(feats) == FALSE

\* 'if not detected_features:'
NoFeatures(feats) == feats = << >>

\* The try block of _save_updated_data is left at the first operation that
\* raises: the backup is written when the document exists and neither
\* makedirs, the read of the document nor the write of the backup raised
BackupCompleted(docExists, fault) ==
  docExists /\ fault \notin {"makedirs", "backupRead", "backupWrite"}

\* the document written after the log instead of before it
DocCompletedAfterLog(fault) == fault = "none"

\* the document is written when nothing up to and including its write raised
DocCompleted(fault) ==
  fault \notin {"makedirs", "backupRead", "backupWrite", "docWrite"}

\* the document write guarded by a try of its own, so that the log step
\* still runs after it failed
LogCompletedDespiteDocFault(fault) == fault \in {"none", "docWrite"}

\* the log is written when nothing in the try block raised
LogCompleted(fault) == fault = "none"

\* _save_updated_data (the definition at line 982): the files afterwards,
\* what was written, the messages shown and the value returned
SaveUpdatedData(data, files, bks, lg, app_name, pd, t, fault) ==
  LET name == app_filename(app_name)
      bname == backup_filename(app_name, t)
      backupDone == BackupCompleted(name \in DOMAIN files, fault)
      docDone == DocCompleted(fault)
      logDone == LogCompleted(fault)
      logs == IF lg.exists THEN lg.entries ELSE << >>
      newLogs == LastN(Append(logs, LogEntry(app_name, pd, bname)), LogCap)
  IN  [docs |-> IF docDone THEN Put(files, name, data[app_name]) ELSE files,
       backups |-> IF backupDone THEN Put(bks, bname, files[name]) ELSE bks,
       log |-> IF logDone THEN [exists |-> TRUE, entries |-> newLogs] ELSE lg,
       entry |-> LogEntry(app_name, pd, bname),
       backupWritten |-> backupDone,
       docWritten |-> docDone,
       logWritten |-> logDone,
       msgs |-> IF fault = "none" THEN {"info"} ELSE {"warning"},
       ret |-> SaveReturn(fault = "none")]

\* ---------------------------------------------------------- shorthands
AllFeatures == {FeatureNames[i] : i \in 1..Len(FeatureNames)}
FeatureSet(feats) == {feats[i] : i \in 1..Len(feats)}
LogEntries == IF log.exists THEN log.entries ELSE << >>

\* ----------------------------------------------------------- the state
NoStatistics == << >>

NoProcs == << >>
NoListing == << >>
BlankPage == [input |-> 0, rendered |-> {}]

IdleCall ==
  [op |-> "idle", app |-> "", features |-> << >>, sentiment |-> "", fault |-> "none",
   mutated |-> FALSE, backupWritten |-> FALSE, docWritten |-> FALSE,
   logWritten |-> FALSE, ret |-> "None", branch |-> "none", msgs |-> {},
   stats |-> NoStatistics]

InitDocs ==
  { files \in UNION { [D -> UNION {InitialDocuments(a) : a \in Apps}] :
                      D \in SUBSET {data_files(a) : a \in Apps} } :
      \A a \in Apps : data_files(a) \in DOMAIN files
                        => files[data_files(a)] \in InitialDocuments(a) }

Init ==
  /\ docs \in InitDocs
  /\ apps_data = load_all_data(docs)
  /\ backups = << >>
  /\ log = [exists |-> FALSE, entries |-> << >>]
  /\ session_state = << >>
  /\ now = 0
  /\ call = IdleCall
  /\ appended = << >>
  /\ returned = [ok |-> {}, failed |-> {}]
  /\ nCalls = 0
  /\ procs = NoProcs
  /\ ui = BlankPage
  /\ listing = NoListing

\* ------------------------------------------------------------- actions
Predictions(t) ==
  [app : Apps, features : FeatureLists, sentiment : Sentiments, timestamp : {t},
   text : {MinChars}]

\* the analysis applying its prediction to the counters at once
StorePredictionAndApply(pd) ==
  /\ session_state' = Put(session_state, "last_prediction", pd)
  /\ now' = now + 1
  /\ call' = [IdleCall EXCEPT !.op = "analyze"]
  /\ apps_data' = UpdateInMemory(apps_data, pd.app, pd.features, pd.sentiment)
  /\ UNCHANGED <<docs, backups, log, appended, returned, nCalls, procs, listing>>

\* st.session_state.last_prediction = {...}: the two sleeps of the handler
\* let at least a second pass before the prediction is stamped
StorePrediction(pd) ==
  /\ session_state' = Put(session_state, "last_prediction", pd)
  /\ now' = now + 1
  /\ call' = [IdleCall EXCEPT !.op = "analyze"]
  /\ UNCHANGED <<apps_data, docs, backups, log, appended, returned, nCalls, procs, listing>>

\* the runs explored: at most MaxSteps seconds and update calls together
StepsLeft == now + nCalls < MaxSteps

\* create_live_prediction, 'Analisis Sentimen'
Analyze ==
  /\ StepsLeft
  /\ \E pd \in Predictions(now + 1) : StorePrediction(pd)
  /\ UNCHANGED ui

\* create_live_prediction, 'Reset'
Reset ==
  /\ "last_prediction" \in DOMAIN session_state
  /\ session_state' = Remove(session_state, "last_prediction")
  /\ call' = [IdleCall EXCEPT !.op = "reset"]
  /\ UNCHANGED <<apps_data, docs, backups, log, now, appended, returned, nCalls,
                 procs, ui, listing>>

\* a second passes
Tick ==
  /\ StepsLeft
  /\ now' = now + 1
  /\ call' = IdleCall
  /\ UNCHANGED <<apps_data, docs, backups, log, session_state, appended, returned, nCalls,
                 procs, ui, listing>>

\* a new script run constructs the application object again
Reload ==
  /\ apps_data # load_all_data(docs)
  /\ apps_data' = load_all_data(docs)
  /\ call' = IdleCall
  /\ UNCHANGED <<docs, backups, log, session_state, now, appended, returned, nCalls,
                 procs, ui, listing>>

\* _update_app_data with an empty feature list
UpdateRejected(pd) ==
  /\ NoFeatures(pd.features)
  /\ call' = [IdleCall EXCEPT !.op = "update", !.app = pd.app, !.features = pd.features,
                                        !.sentiment = pd.sentiment,
                                        !.branch = "rejected", !.msgs = {"error"}]
  /\ nCalls' = nCalls + 1
  /\ UNCHANGED <<apps_data, docs, backups, log, session_state, now, appended, returned,
                 procs, listing>>

\* _update_app_data with detected features, called on an object whose
\* self.apps_data is data: increment in memory, save, then branch on the
\* value the save step returned
UpdateAppliedTo(data, pd, fault) ==
  LET data1 == UpdateInMemory(data, pd.app, pd.features, pd.sentiment)
      saved == SaveUpdatedData(data1, docs, backups, log, pd.app, pd, now, fault)
      success == Truthy(saved.ret)
  IN  /\ ~NoFeatures(pd.features)
      /\ FaultCanOccur(fault, pd.app, docs, log)
      /\ nCalls' = nCalls + 1
      /\ UNCHANGED <<procs, listing>>
      /\ docs' = saved.docs
      /\ backups' = saved.backups
      /\ log' = saved.log
      /\ appended' = IF saved.logWritten THEN Append(appended, saved.entry) ELSE appended
      /\ returned' = IF saved.docWritten
                     THEN [returned EXCEPT !.ok = @ \cup {saved.ret}]
                     ELSE IF fault = "docWrite"
                     THEN [returned EXCEPT !.failed = @ \cup {saved.ret}]
                     ELSE returned
      /\ IF success
         THEN /\ session_state' =
                   Put(Put(Remove(session_state, "last_prediction"),
                           "data_updated", TRUE), "last_update_time", now)
              /\ now' = now + 1
              /\ apps_data' = load_all_data(saved.docs)
         ELSE /\ UNCHANGED <<session_state, now>>
              /\ apps_data' = data1
      /\ call' = [op |-> "update", app |-> pd.app, features |-> pd.features,
                  sentiment |-> pd.sentiment, fault |-> fault,
                  mutated |-> data1 # data,
                  backupWritten |-> saved.backupWritten,
                  docWritten |-> saved.docWritten,
                  logWritten |-> saved.logWritten,
                  ret |-> saved.ret,
                  branch |-> IF success THEN "success" ELSE "none",
                  msgs |-> IF success THEN saved.msgs \cup {"success"} ELSE saved.msgs,
                  stats |-> IF success THEN ShownStatistics(data1[pd.app], pd.features)
                            ELSE NoStatistics]

\* _update_app_data called on the object the session holds
UpdateApplied(pd, fault) == UpdateAppliedTo(apps_data, pd, fault)

\* create_live_prediction hands st.session_state.last_prediction to
\* _update_app_data
Update ==
  /\ "last_prediction" \in DOMAIN session_state
  /\ StepsLeft
  /\ UNCHANGED ui
  /\ LET pd == session_state["last_prediction"]
     IN  \/ UpdateRejected(pd)
         \/ \E fault \in Faults : UpdateApplied(pd, fault)

Next == Analyze \/ Reset \/ Tick \/ Reload \/ Update

Spec == Init /\ [][Next]_vars

\* ------------------------------------------- the audit-cap scenario
\* A long run of one session that starts with an empty log: every analysis
\* is followed by one update of the first application (the clock counts
\* the analyses, nCalls the updates); the first
\* AuditFaultWindow updates may fail at the document or at the log write.
AuditPrediction(t) ==
  [app |-> AppNames[1], features |-> <<FeatureNames[1]>>,
   sentiment |-> "positive", timestamp |-> t, text |-> MinChars]

AuditFaults(n) == IF n < AuditFaultWindow THEN {"none", "docWrite", "logWrite"} ELSE {"none"}

InitAudit ==
  /\ docs = << >>
  /\ apps_data = load_all_data(docs)
  /\ backups = << >>
  /\ log = [exists |-> FALSE, entries |-> << >>]
  /\ session_state = << >>
  /\ now = 0
  /\ call = IdleCall
  /\ appended = << >>
  /\ returned = [ok |-> {}, failed |-> {}]
  /\ nCalls = 0
  /\ procs = NoProcs
  /\ ui = BlankPage
  /\ listing = NoListing

AuditAnalyze ==
  /\ nCalls = now
  /\ nCalls < MaxAuditUpdates
  /\ StorePrediction(AuditPrediction(now + 1))
  /\ UNCHANGED ui

AuditUpdate ==
  /\ nCalls < now
  /\ \E fault \in AuditFaults(nCalls) :
       UpdateApplied(session_state["last_prediction"], fault)
  /\ UNCHANGED ui

NextAudit == AuditAnalyze \/ AuditUpdate

SpecAudit == InitAudit /\ [][NextAudit]_vars

\* ------------------------------------------- the review-text scenario
\* One review followed from the text area to the log: the analysis accepts
\* a text of MinChars to MaxChars characters, and the update that follows
\* logs it.  No file operation fails.
TextPrediction(n, t) ==
  [app |-> AppNames[1], features |-> <<FeatureNames[1]>>,
   sentiment |-> "positive", timestamp |-> t, text |-> n]

TextAnalyze ==
  /\ now = 0
  /\ \E n \in MinChars..MaxChars : StorePrediction(TextPrediction(n, now + 1))
  /\ UNCHANGED ui

TextUpdate ==
  /\ "last_prediction" \in DOMAIN session_state
  /\ nCalls = 0
  /\ UpdateApplied(session_state["last_prediction"], "none")
  /\ UNCHANGED ui

NextText == TextAnalyze \/ TextUpdate

SpecText == InitAudit /\ [][NextText]_vars

\* ------------------------------------------- the percentage scenario
\* The first application's document holds one feature with any counters up
\* to MaxCount; the pages that print a percentage are then rendered.
InitPct ==
  /\ \E p \in 0..MaxCount, n \in 0..MaxCount :
       docs = Put(<< >>, data_files(AppNames[1]),
                  Put(<< >>, FeatureNames[1], Counters(p, n)))
  /\ apps_data = load_all_data(docs)
  /\ backups = << >>
  /\ log = [exists |-> FALSE, entries |-> << >>]
  /\ session_state = << >>
  /\ now = 0
  /\ call = IdleCall
  /\ appended = << >>
  /\ returned = [ok |-> {}, failed |-> {}]
  /\ nCalls = 0
  /\ procs = NoProcs
  /\ ui = BlankPage
  /\ listing = NoListing

\* a page render changes nothing but what is shown
Shows(op, app_name, feats, sentiment, shown) ==
  /\ call' = [IdleCall EXCEPT !.op = op, !.app = app_name, !.features = feats,
                                        !.sentiment = sentiment, !.stats = shown]
  /\ UNCHANGED <<apps_data, docs, backups, log, session_state, now, appended, returned,
                 nCalls, procs, ui, listing>>

\* _show_updated_statistics(app_name, updated_features): it indexes
\* app_data[feature], so it is applied to features the application holds
PctStatistics ==
  \E a \in DOMAIN apps_data, feats \in FeatureLists :
    /\ feats # << >>
    /\ FeatureSet(feats) \subseteq DOMAIN apps_data[a]
    /\ Shows("statistics", a, feats, "", ShownStatistics(apps_data[a], feats))

\* create_comparison_table
PctTable ==
  Shows("table", "", << >>, "", ComparisonTable(apps_data))

\* _show_enhanced_data_update_preview for a prediction with detected features
PctPreview ==
  \E a \in DOMAIN apps_data, feats \in FeatureLists, s \in Sentiments :
    /\ feats # << >>
    /\ Shows("preview", a, feats, s, PreviewData(apps_data, a, feats, s))

NextPct == PctStatistics \/ PctTable \/ PctPreview

SpecPct == InitPct /\ [][NextPct]_vars

\* ------------------------------------------- the history scenario
\* The update log as the history page finds it.  Entries are logged in the
\* order of the updates and stamped with the time of the analysis, so that
\* with several sessions the timestamps of the file come in any order, and
\* a prediction applied twice is logged twice with one timestamp.  The logs
\* explored are every log of at most MaxShortLog entries over two
\* timestamps, two applications and both sentiments, and logs of up to
\* MaxLogLen entries whose fields cycle with the position.
HistoryApps == {AppNames[1], AppNames[2]}

HistoryEntry(t, a, s, n) ==
  LogEntry(a, [timestamp |-> t, sentiment |-> s, features |-> <<FeatureNames[1]>>,
               text |-> MinChars + n],
           backup_filename(a, t))

ShortEntries == {HistoryEntry(t, a, s, 0) : t \in 1..2, a \in HistoryApps, s \in Sentiments}

ShortLogs == UNION {[1..n -> ShortEntries] : n \in 1..MaxShortLog}

CycleLog(n, stride) ==
  [i \in 1..n |->
     HistoryEntry((i * stride) % 5,
                  IF i % 2 = 0 THEN AppNames[1] ELSE AppNames[2],
                  IF (i \div 2) % 2 = 0 THEN "positive" ELSE "negative",
                  i)]

CycleLogs == {CycleLog(n, stride) : n \in (MaxShortLog + 1)..MaxLogLen, stride \in 1..3}

InitHistory ==
  /\ \/ log = [exists |-> FALSE, entries |-> << >>]
     \/ \E entries \in ShortLogs \cup CycleLogs : log = [exists |-> TRUE, entries |-> entries]
  /\ docs = << >>
  /\ apps_data = load_all_data(docs)
  /\ backups = << >>
  /\ session_state = << >>
  /\ now = 0
  /\ call = IdleCall
  /\ appended = << >>
  /\ returned = [ok |-> {}, failed |-> {}]
  /\ nCalls = 0
  /\ procs = NoProcs
  /\ ui = BlankPage
  /\ listing = NoListing

\* the page writing its sorted copy back to the log file
ListsAndSorts(app_filter, sentiment_filter, limit, shown) ==
  /\ listing' = [app_filter |-> app_filter, sentiment_filter |-> sentiment_filter,
                 limit |-> limit, shown |-> shown]
  /\ call' = [IdleCall EXCEPT !.op = "history"]
  /\ log' = [log EXCEPT !.entries = SortNewestFirst(@)]
  /\ UNCHANGED <<apps_data, docs, backups, session_state, now, appended, returned,
                 nCalls, procs, ui>>

\* the page shows what it lists and changes nothing else
Lists(app_filter, sentiment_filter, limit, shown) ==
  /\ listing' = [app_filter |-> app_filter, sentiment_filter |-> sentiment_filter,
                 limit |-> limit, shown |-> shown]
  /\ call' = [IdleCall EXCEPT !.op = "history"]
  /\ UNCHANGED <<apps_data, docs, backups, log, session_state, now, appended, returned,
                 nCalls, procs, ui>>

\* create_update_history without a log file, or with an empty one: the page
\* returns before it offers a filter
HistoryNone ==
  /\ ~log.exists \/ log.entries = << >>
  /\ Lists(Semua, Semua, 10, << >>)

\* create_update_history with the values chosen in the three select boxes
History ==
  /\ log.exists /\ log.entries # << >>
  /\ \E app_filter \in {Semua} \cup {log.entries[i].app_name : i \in 1..Len(log.entries)},
        sentiment_filter \in {Semua} \cup Sentiments,
        limit \in LimitOptions :
       Lists(app_filter, sentiment_filter, limit,
             FilteredLogs(log.entries, app_filter, sentiment_filter, limit))

NextHistory == HistoryNone \/ History

SpecHistory == InitHistory /\ [][NextHistory]_vars

\* ------------------------------------------- listing and eviction
\* The log is full, or one entry short of it, with timestamps that are not
\* in the order of the file: its first entry is not its oldest.  The
\* history page is opened with any filters, and the first application is
\* updated without a failure.
FullLogs == {CycleLog(n, stride) : n \in (LogCap - 1)..LogCap, stride \in 1..EvictStrides}

InitEvict ==
  /\ \E entries \in FullLogs : log = [exists |-> TRUE, entries |-> entries]
  /\ docs = << >>
  /\ apps_data = load_all_data(docs)
  /\ backups = << >>
  /\ session_state = << >>
  /\ now = 0
  /\ call = IdleCall
  /\ appended = << >>
  /\ returned = [ok |-> {}, failed |-> {}]
  /\ nCalls = 0
  /\ procs = NoProcs
  /\ ui = BlankPage
  /\ listing = NoListing

EvictAnalyze ==
  /\ StepsLeft
  /\ StorePrediction(AuditPrediction(now + 1))
  /\ UNCHANGED ui

EvictUpdate ==
  /\ "last_prediction" \in DOMAIN session_state
  /\ StepsLeft
  /\ UpdateApplied(session_state["last_prediction"], "none")
  /\ UNCHANGED ui

NextEvict == EvictAnalyze \/ EvictUpdate \/ History

SpecEvict == InitEvict /\ [][NextEvict]_vars

\* ------------------------------------------- preview and update
\* The first application's document holds one feature with any counters up
\* to MaxCount.  One prediction is stored, the page shows the preview of its
\* update (_display_enhanced_prediction_results, line 587), and
\* _update_app_data is called once with it on the same object, with or
\* without a failing file operation.
PreviewAnalyze ==
  /\ now = 0
  /\ \E pd \in Predictions(now + 1) : StorePrediction(pd)
  /\ UNCHANGED ui

\* _show_enhanced_data_update_preview(st.session_state.last_prediction)
PreviewPending ==
  /\ "last_prediction" \in DOMAIN session_state
  /\ LET pd == session_state["last_prediction"]
     IN  /\ ~NoFeatures(pd.features)
         /\ Shows("preview", pd.app, pd.features, pd.sentiment,
                  PreviewData(apps_data, pd.app, pd.features, pd.sentiment))

PreviewUpdate ==
  /\ "last_prediction" \in DOMAIN session_state
  /\ nCalls = 0
  /\ \E fault \in Faults : UpdateApplied(session_state["last_prediction"], fault)
  /\ UNCHANGED ui

NextPreview == PreviewAnalyze \/ PreviewPending \/ PreviewUpdate

SpecPreview == InitPct /\ [][NextPreview]_vars

\* ------------------------------------------- the live-prediction page
\* One session on the page 'Prediksi Live'.  Every interaction (a change of
\* the text, a click on a button) runs the script from the top: a new
\* application object loads the documents, the page is rendered, and a
\* button reports True only in the run that its click started.
TextLengths == {0, MinChars - 1, MinChars, ExcerptChars + 1}

Buttons == {"predict", "simpan", "reset", "help", "konfirmasi", "ya"}

\* st.button(...) in a run started by a click on 'clicked'
ButtonReports(clicked, b) == clicked = b

\* the buttons a run renders enabled: hadPrediction is has_prediction as
\* column 2 computes it, before the analysis of the same run has stored
\* anything; hasPrediction is the test of line 408
Rendered(input, hadPrediction, hasPrediction, clicked) ==
  {"reset", "help"}
    \cup (IF input >= MinChars THEN {"predict"} ELSE {})
    \cup (IF hadPrediction /\ input >= MinChars THEN {"simpan"} ELSE {})
    \cup (IF hasPrediction THEN {"konfirmasi"} ELSE {})
    \cup (IF hasPrediction /\ ButtonReports(clicked, "konfirmasi") THEN {"ya"} ELSE {})

HasPrediction == "last_prediction" \in DOMAIN session_state

InitUI ==
  /\ docs \in InitDocs
  /\ apps_data = load_all_data(docs)
  /\ backups = << >>
  /\ log = [exists |-> FALSE, entries |-> << >>]
  /\ session_state = << >>
  /\ now = 0
  /\ call = IdleCall
  /\ appended = << >>
  /\ returned = [ok |-> {}, failed |-> {}]
  /\ nCalls = 0
  /\ procs = NoProcs
  /\ ui = [input |-> 0, rendered |-> Rendered(0, FALSE, FALSE, "")]
  /\ listing = NoListing

\* a run that stores nothing: the object it constructs loads the documents
RunShows(op, clicked) ==
  /\ apps_data' = load_all_data(docs)
  /\ call' = [IdleCall EXCEPT !.op = op]
  /\ ui' = [ui EXCEPT !.rendered = Rendered(ui.input, HasPrediction, HasPrediction, clicked)]
  /\ UNCHANGED <<docs, backups, log, session_state, now, appended, returned, nCalls,
                 procs, listing>>

\* the text area is edited: a run without a click
UIType ==
  \E n \in TextLengths \ {ui.input} :
    /\ apps_data' = load_all_data(docs)
    /\ call' = [IdleCall EXCEPT !.op = "type"]
    /\ ui' = [input |-> n, rendered |-> Rendered(n, HasPrediction, HasPrediction, "")]
    /\ UNCHANGED <<docs, backups, log, session_state, now, appended, returned, nCalls,
                   procs, listing>>

\* 'Analisis Sentimen': the prediction is stored after column 2 has been
\* rendered, so 'Simpan ke Database' is enabled in this run only if an
\* earlier prediction was held
UIPredict ==
  /\ "predict" \in ui.rendered
  /\ StepsLeft
  /\ \E p \in Predictions(now + 1) : StorePrediction([p EXCEPT !.text = ui.input])
  /\ ui' = [ui EXCEPT !.rendered = Rendered(ui.input, HasPrediction, TRUE, "predict")]

\* 'Simpan ke Database': update_button is assigned and not read again
UISimpan ==
  /\ "simpan" \in ui.rendered
  /\ RunShows("simpan", "simpan")

\* 'Reset': the prediction is deleted and st.rerun() starts the run again
UIReset ==
  /\ "reset" \in ui.rendered
  /\ apps_data' = load_all_data(docs)
  /\ session_state' = Remove(session_state, "last_prediction")
  /\ call' = [IdleCall EXCEPT !.op = "reset"]
  /\ ui' = [ui EXCEPT !.rendered = Rendered(ui.input, FALSE, FALSE, "")]
  /\ UNCHANGED <<docs, backups, log, now, appended, returned, nCalls, procs, listing>>

\* 'Help'
UIHelp ==
  /\ "help" \in ui.rendered
  /\ RunShows("help", "help")

\* lines 408-412 in a run started by a click on 'clicked', one of the two
\* confirmation buttons: _update_app_data is called when both report True
UIConfirm(clicked) ==
  /\ IF /\ HasPrediction
        /\ ButtonReports(clicked, "konfirmasi")
        /\ ButtonReports(clicked, "ya")
     THEN LET pd == session_state["last_prediction"]
          IN  /\ StepsLeft
              /\ ui' = [ui EXCEPT !.rendered =
                          Rendered(ui.input, HasPrediction, HasPrediction, clicked)]
              /\ IF NoFeatures(pd.features)
                 THEN UpdateRejected(pd)
                 ELSE \E fault \in Faults : UpdateAppliedTo(load_all_data(docs), pd, fault)
     ELSE RunShows(clicked, clicked)

\* 'Konfirmasi Simpan Data'
UIKonfirmasi ==
  /\ "konfirmasi" \in ui.rendered
  /\ UIConfirm("konfirmasi")

\* 'Ya, Simpan Data!'
UIYa ==
  /\ "ya" \in ui.rendered
  /\ UIConfirm("ya")

NextUI == UIType \/ UIPredict \/ UISimpan \/ UIReset \/ UIHelp \/ UIKonfirmasi \/ UIYa

SpecUI == InitUI /\ [][NextUI]_vars

\* ------------------------------------------- two concurrent sessions
\* Two sessions update the first application at the same time.  Each runs
\* the script with an application object of its own (line 1169) and shares
\* only the files with the other.  A step is one access to a file; a read
\* or a write of a whole file is taken as atomic, and no operation fails.
Sessions == {"s1", "s2"}

ConcPredictions ==
  [app : {AppNames[1]}, features : FeatureLists \ {<< >>}, sentiment : Sentiments,
   timestamp : {1}, text : {MinChars}]

NewSession(pd) == [pc |-> "start", pd |-> pd, data |-> << >>, logs |-> << >>]

InitConc ==
  /\ docs \in InitDocs
  /\ apps_data = load_all_data(docs)
  /\ backups = << >>
  /\ log = [exists |-> FALSE, entries |-> << >>]
  /\ session_state = << >>
  /\ now = 1
  /\ call = IdleCall
  /\ appended = << >>
  /\ returned = [ok |-> {}, failed |-> {}]
  /\ nCalls = 0
  /\ procs \in [Sessions -> {NewSession(pd) : pd \in ConcPredictions}]
  /\ ui = BlankPage
  /\ listing = NoListing

\* session p moves to 'pc' with the fields of its record set as given
Moves(p, pc, data, logs) ==
  procs' = [procs EXCEPT ![p] = [pc |-> pc, pd |-> procs[p].pd, data |-> data, logs |-> logs]]

\* SentimentAnalysisApp(): load_all_data reads the documents
CLoad(p) ==
  /\ procs[p].pc = "start"
  /\ Moves(p, "loaded", load_all_data(docs), << >>)
  /\ UNCHANGED <<apps_data, docs, backups, log, session_state, now, call, appended,
                 returned, nCalls, ui, listing>>

\* _update_app_data, lines 716-733: the counters of the session's own object
CIncrement(p) ==
  /\ procs[p].pc = "loaded"
  /\ Moves(p, "incremented",
           UpdateInMemory(procs[p].data, procs[p].pd.app, procs[p].pd.features,
                          procs[p].pd.sentiment),
           << >>)
  /\ UNCHANGED <<apps_data, docs, backups, log, session_state, now, call, appended,
                 returned, nCalls, ui, listing>>

\* _save_updated_data, lines 1000-1005: the document, if there is one, is
\* copied to the backup file
CBackup(p) ==
  LET name == app_filename(procs[p].pd.app)
  IN  /\ procs[p].pc = "incremented"
      /\ Moves(p, "backedUp", procs[p].data, << >>)
      /\ backups' = IF name \in DOMAIN docs
                    THEN Put(backups, backup_filename(procs[p].pd.app, now), docs[name])
                    ELSE backups
      /\ UNCHANGED <<apps_data, docs, log, session_state, now, call, appended,
                     returned, nCalls, ui, listing>>

\* lines 1008-1011: the session's aggregate is written over the document
CWriteDoc(p) ==
  /\ procs[p].pc = "backedUp"
  /\ Moves(p, "docWritten", procs[p].data, << >>)
  /\ docs' = Put(docs, app_filename(procs[p].pd.app), procs[p].data[procs[p].pd.app])
  /\ UNCHANGED <<apps_data, backups, log, session_state, now, call, appended,
                 returned, nCalls, ui, listing>>

\* lines 1027-1031: the log is read
CReadLog(p) ==
  /\ procs[p].pc = "docWritten"
  /\ Moves(p, "logRead", procs[p].data, IF log.exists THEN log.entries ELSE << >>)
  /\ UNCHANGED <<apps_data, docs, backups, log, session_state, now, call, appended,
                 returned, nCalls, ui, listing>>

\* lines 1033-1041: the entry is appended and the log written; the save step
\* ends with its message 'Data disimpan dan backup dibuat'
CWriteLog(p) ==
  LET pd == procs[p].pd
      entry == LogEntry(pd.app, pd, backup_filename(pd.app, now))
  IN  /\ procs[p].pc = "logRead"
      /\ Moves(p, "done", procs[p].data, << >>)
      /\ log' = [exists |-> TRUE, entries |-> LastN(Append(procs[p].logs, entry), LogCap)]
      /\ appended' = Append(appended, entry)
      /\ nCalls' = nCalls + 1
      /\ UNCHANGED <<apps_data, docs, backups, session_state, now, call, returned,
                     ui, listing>>

NextConc ==
  \E p \in Sessions :
    CLoad(p) \/ CIncrement(p) \/ CBackup(p) \/ CWriteDoc(p) \/ CReadLog(p) \/ CWriteLog(p)

SpecConc == InitConc /\ [][NextConc]_vars

\* ------------------------------- two sessions, two applications
\* As above, with the sessions updating different applications: the first
\* session the first application, the second session the second one.  The
\* documents are apart; the log file is the one file both write.
TwoApps == {AppNames[1], AppNames[2]}

SessionApp(p) == IF p = "s1" THEN AppNames[1] ELSE AppNames[2]

TwoAppsPredictions(p) ==
  [app : {SessionApp(p)}, features : FeatureLists \ {<< >>}, sentiment : Sentiments,
   timestamp : {1}, text : {MinChars}]

InitTwoApps ==
  /\ docs \in InitDocs
  /\ apps_data = load_all_data(docs)
  /\ backups = << >>
  /\ log = [exists |-> FALSE, entries |-> << >>]
  /\ session_state = << >>
  /\ now = 1
  /\ call = IdleCall
  /\ appended = << >>
  /\ returned = [ok |-> {}, failed |-> {}]
  /\ nCalls = 0
  /\ \E pd1 \in TwoAppsPredictions("s1"), pd2 \in TwoAppsPredictions("s2") :
       procs = [p \in Sessions |-> NewSession(IF p = "s1" THEN pd1 ELSE pd2)]
  /\ ui = BlankPage
  /\ listing = NoListing

\* SentimentAnalysisApp(): load_all_data reads the documents of both
\* applications
CLoadTwoApps(p) ==
  /\ procs[p].pc = "start"
  /\ Moves(p, "loaded", LoadData(TwoApps, docs), << >>)
  /\ UNCHANGED <<apps_data, docs, backups, log, session_state, now, call, appended,
                 returned, nCalls, ui, listing>>

NextTwoApps ==
  \E p \in Sessions :
    CLoadTwoApps(p) \/ CIncrement(p) \/ CBackup(p) \/ CWriteDoc(p) \/ CReadLog(p)
      \/ CWriteLog(p)

SpecTwoApps == InitTwoApps /\ [][NextTwoApps]_vars

\* ---------------------------------------------------------- properties
\* the counters of application a in 'after' are those of 'before' plus one
\* for sentiment s of every feature in feats
IncrementedBy(before, after, feats, s) ==
  \A f \in AllFeatures, t \in Sentiments :
    GetCount(after, f, t) =
      GetCount(before, f, t) + (IF f \in FeatureSet(feats) /\ t = s THEN 1 ELSE 0)

\* C1: when the write of the document fails during an update, the in-memory
\* aggregates after the call equal those before the call.
C1_MemoryUnchangedOnWriteFailure ==
  [][call'.op = "update" /\ call'.fault = "docWrite" => apps_data' = apps_data]_vars

\* C2: after an update whose document write succeeded, the counter of the
\* prediction's sentiment is one higher for every feature of the prediction
\* (an absent feature counting as zero) and every other counter of the
\* application is unchanged.
C2_IncrementCorrect ==
  [][call'.op = "update" /\ call'.docWritten
       => IncrementedBy(apps_data[call'.app], apps_data'[call'.app],
                        call'.features, call'.sentiment)]_vars

\* a committed update of two features, one of which the document did not hold
C2_Witness ==
  /\ call.op = "update" /\ call.docWritten /\ Len(call.features) >= 2
  /\ "kotoba" \in FeatureSet(call.features)
  /\ GetCount(apps_data[call.app], "kotoba", "positive")
       + GetCount(apps_data[call.app], "kotoba", "negative") = 1
  /\ GetCount(apps_data[call.app], "kanji", "positive") >= 5

\* C3: an update with an empty feature list changes no counter, no
\* document, no backup and no log entry.
C3_EmptyFeaturesNoEffect ==
  [][call'.op = "update" /\ call'.features = << >>
       => UNCHANGED <<apps_data, docs, backups, log>>]_vars

C3_Witness ==
  call.op = "update" /\ call.features = << >> /\ call.branch = "rejected"

\* C4: an update call leaves either all three of counter mutation, backup
\* and log entry, or none of them.
C4_AllOrNothing ==
  call.op = "update"
    => \/ call.mutated /\ call.backupWritten /\ call.logWritten
       \/ ~call.mutated /\ ~call.backupWritten /\ ~call.logWritten

\* C5: when the write of the document fails during an update, the log file
\* is the same after the call as before it.
C5_LogUnchangedOnWriteFailure ==
  [][call'.op = "update" /\ call'.fault = "docWrite" => log' = log]_vars

\* a failed document write after an earlier update had been logged
C5_Witness ==
  call.op = "update" /\ call.fault = "docWrite" /\ Len(LogEntries) >= 1

\* C6: the log holds the last min(n, 100) of the n entries appended so far,
\* in insertion order, and never more than 100.
C6_AuditCap ==
  /\ Len(LogEntries) = Min(Len(appended), LogCap)
  /\ Len(LogEntries) <= LogCap
  /\ \A i \in 1..Len(LogEntries) :
       LogEntries[i] = appended[Len(appended) - Len(LogEntries) + i]

\* 101 entries appended: 100 are held and the first one is gone
C6_Witness ==
  /\ Len(appended) = LogCap + 1
  /\ Len(LogEntries) = LogCap
  /\ LogEntries[1] = appended[2]
  /\ \A i \in 1..Len(LogEntries) : LogEntries[i] # appended[1]

\* C7: when the backup step of an update raises, the incremented aggregate
\* is still written to the document and kept in memory.
C7_BackupFailureNotFatal ==
  call.op = "update" /\ call.fault \in {"backupRead", "backupWrite"}
    => /\ call.docWritten
       /\ data_files(call.app) \in DOMAIN docs
       /\ docs[data_files(call.app)] = apps_data[call.app]

\* C8: when the read or the write of the log raises in an update, the
\* increments are in memory and in the document afterwards, and the call
\* shows a warning and no error.
C8_LogFailureNotFatal ==
  [][call'.op = "update" /\ call'.fault \in {"logRead", "logWrite"}
       => /\ IncrementedBy(apps_data[call'.app], apps_data'[call'.app],
                           call'.features, call'.sentiment)
          /\ data_files(call'.app) \in DOMAIN docs'
          /\ IncrementedBy(apps_data[call'.app], docs'[data_files(call'.app)],
                           call'.features, call'.sentiment)
          /\ "warning" \in call'.msgs
          /\ "error" \notin call'.msgs]_vars

C8_Witness ==
  /\ call.op = "update" /\ call.fault = "logWrite" /\ call.docWritten
  /\ docs[data_files(call.app)] = apps_data[call.app]
  /\ "warning" \in call.msgs

\* C9: the value the save step returns after a failed document write is
\* never a value it returns after a successful one.
C9_OutcomesDistinguishable ==
  returned.ok \cap returned.failed = {}

\* C10: an update whose document write and log write both succeeded takes
\* the success branch and shows the counters and percentage of every
\* updated feature.
C10_SuccessBranchReached ==
  call.op = "update" /\ call.docWritten /\ call.logWritten
    => /\ call.branch = "success"
       /\ call.stats = ShownStatistics(apps_data[call.app], call.features)

\* C12: no step of the program lowers a positive or negative counter of any
\* application and feature held in memory.
C12_CountersNeverDecrease ==
  [][\A a \in DOMAIN apps_data, f \in AllFeatures, t \in Sentiments :
       a \in DOMAIN apps_data'
         /\ GetCount(apps_data'[a], f, t) >= GetCount(apps_data[a], f, t)]_vars

\* C13: the backup an update writes is a copy of the application's in-memory
\* aggregate as it stood just before that update's increments.
C13_BackupIsPriorAggregate ==
  [][call'.op = "update" /\ call'.backupWritten
       => backups'[backup_filename(call'.app, now)] = apps_data[call'.app]]_vars

\* C14: every log entry names a backup file that has been written.
C14_LoggedBackupWritten ==
  \A i \in 1..Len(LogEntries) : LogEntries[i].backup_file \in DOMAIN backups

\* C15: a backup file, once written, is never overwritten or changed.
C15_BackupsImmutable ==
  [][\A b \in DOMAIN backups : b \in DOMAIN backups' /\ backups'[b] = backups[b]]_vars

\* C19: an analysis or a Reset changes neither the in-memory aggregates nor
\* the documents, the backups or the log.
C19_PendingHasNoStoreEffect ==
  [][call'.op \in {"analyze", "reset"} => UNCHANGED <<apps_data, docs, backups, log>>]_vars

\* a prediction was stored and discarded again without any update call
C19_Witness ==
  /\ call.op = "reset" /\ nCalls = 0 /\ now >= 1
  /\ "last_prediction" \notin DOMAIN session_state
  /\ apps_data = load_all_data(docs) /\ backups = << >> /\ ~log.exists

\* C16: the review_text of every log entry is at most 100 characters long.
C16_ExcerptAtMost100 ==
  \A i \in 1..Len(LogEntries) : ReviewTextLen(LogEntries[i].review_text) <= ExcerptChars

\* C16, amended: a review of at most 100 characters is logged whole; a longer
\* one is logged as its first 100 characters followed by the three dots, so
\* that review_text is at most 103 characters long.
C16_ExcerptThenEllipsis ==
  [][call'.op = "update" /\ call'.logWritten
       => LET text == session_state["last_prediction"].text
              rt == log'.entries[Len(log'.entries)].review_text
          IN  /\ rt.kept = Min(text, ExcerptChars)
              /\ rt.ellipsis = (text > ExcerptChars)
              /\ ReviewTextLen(rt) <= ExcerptChars + EllipsisChars]_vars

\* the longest text the text area accepts has been logged in 103 characters
C16_Witness ==
  /\ call.op = "update" /\ call.logWritten
  /\ session_state["last_prediction"].text = MaxChars
  /\ ReviewTextLen(LogEntries[Len(LogEntries)].review_text) = ExcerptChars + EllipsisChars

\* p tenths of a percent is pos / (pos + neg) * 100 rounded to one decimal,
\* and 0.0 when pos + neg = 0
IsRoundedPercentage(p, pos, neg) ==
  LET total == pos + neg
      d == p * total - 1000 * pos
  IN  IF total > 0 THEN 2 * (IF d < 0 THEN -d ELSE d) <= total ELSE p = 0

Count(seq, e) == Cardinality({i \in 1..Len(seq) : seq[i] = e})

\* entry e passes the filters of the listing
Matches(e) ==
  /\ listing.app_filter = Semua \/ e.app_name = listing.app_filter
  /\ listing.sentiment_filter = Semua \/ e.sentiment = listing.sentiment_filter

\* C18: the listing for filters a, s and limit k is the first k entries (all,
\* if there are fewer) of the stored log ordered by timestamp descending and
\* restricted to the entries that pass the filters: it is ordered newest
\* first, holds only matching entries of the log, each no more often than
\* the log does, has min(k, number of matching entries) entries, and no
\* matching entry left out is newer than an entry shown.
C18_ListingIsNewestMatching ==
  listing # NoListing =>
    LET shown == listing.shown
        matching == {i \in 1..Len(LogEntries) : Matches(LogEntries[i])}
    IN  /\ Len(shown) = Min(listing.limit, Cardinality(matching))
        /\ \A i \in 1..Len(shown) : \A j \in i..Len(shown) :
             shown[i].timestamp >= shown[j].timestamp
        /\ \A i \in 1..Len(shown) :
             /\ Matches(shown[i])
             /\ Count(shown, shown[i]) <= Count(LogEntries, shown[i])
        /\ \A i \in matching :
             Count(shown, LogEntries[i]) < Count(LogEntries, LogEntries[i])
               => \A j \in 1..Len(shown) : shown[j].timestamp >= LogEntries[i].timestamp

\* a listing of one application cut at the limit: more matching entries
\* than are shown, and matching entries beyond the tenth of the sorted log
C18_Witness ==
  /\ listing # NoListing
  /\ listing.app_filter = AppNames[1] /\ listing.limit = 10
  /\ Len(listing.shown) = 10
  /\ Cardinality({i \in 1..Len(LogEntries) : Matches(LogEntries[i])}) > 10
  /\ \E i \in 1..(Len(LogEntries) - 1) :
       LogEntries[i].timestamp < LogEntries[i + 1].timestamp

\* C20: a click on the enabled button 'Simpan ke Database', with a prediction
\* held and at least 10 characters in the text area, calls the update step.
C20_SimpanInvokesUpdate ==
  [][/\ "simpan" \in ui.rendered
     /\ HasPrediction
     /\ session_state["last_prediction"].features # << >>
     /\ ui.input >= MinChars
     /\ call'.op = "simpan"
     => nCalls' = nCalls + 1]_vars

\* the aggregate of application a before any update: a document the file
\* may hold at the start, or the seed table
BaseAggregates(a) == InitialDocuments(a) \cup {get_fallback_data(a)}

\* how many of the sessions count a review of sentiment t for feature f
SessionIncrements(f, t) ==
  Cardinality({p \in Sessions : f \in FeatureSet(procs[p].pd.features)
                                  /\ procs[p].pd.sentiment = t})

\* C11: when both concurrent updates of one application have completed
\* their save, the document holds the increments of both.
C11_NoLostUpdate ==
  (\A p \in Sessions : procs[p].pc = "done")
    => /\ app_filename(AppNames[1]) \in DOMAIN docs
       /\ \E base \in BaseAggregates(AppNames[1]) :
            \A f \in AllFeatures, t \in Sentiments :
              GetCount(docs[app_filename(AppNames[1])], f, t)
                = GetCount(base, f, t) + SessionIncrements(f, t)

\* C21: when the concurrent updates of two different applications have both
\* completed their save, the log holds an entry of each of them.
C21_NoLostLogEntry ==
  (\A p \in Sessions : procs[p].pc = "done")
    => \A p \in Sessions :
         \E i \in 1..Len(LogEntries) :
           /\ LogEntries[i].app_name = procs[p].pd.app
           /\ LogEntries[i].features = procs[p].pd.features
           /\ LogEntries[i].sentiment = procs[p].pd.sentiment

\* C22: a listing leaves the log file as it is, and an update of a full log
\* drops the first entry of the file, whatever its timestamp, and appends
\* its own entry behind the others.
C22_ListingLeavesLog ==
  [][/\ call'.op = "history" => log' = log
     /\ call'.op = "update" /\ call'.logWritten /\ Len(LogEntries) = LogCap
          => /\ Len(log'.entries) = LogCap
             /\ \A i \in 1..(LogCap - 1) : log'.entries[i] = log.entries[i + 1]
             /\ log'.entries[LogCap] = appended'[Len(appended')]]_vars

\* the full log was listed whole, then an update evicted its first entry,
\* which the listing still shows, and an older entry is still in the log
C22_Witness ==
  /\ call.op = "update" /\ call.logWritten
  /\ listing # NoListing /\ Len(listing.shown) = LogCap
  /\ Len(LogEntries) = LogCap
  /\ \E i \in 1..Len(listing.shown) :
       /\ \A j \in 1..Len(LogEntries) : LogEntries[j] # listing.shown[i]
       /\ \E j \in 1..Len(LogEntries) : LogEntries[j].timestamp < listing.shown[i].timestamp

\* C23: after an update whose document and log were written, the pending
\* prediction is no longer in the session state.
C23_AppliedPredictionRemoved ==
  [][call'.op = "update" /\ call'.docWritten /\ call'.logWritten
       => "last_prediction" \notin DOMAIN session_state']_vars

\* C24: with a prediction pending and 'Ya, Simpan Data!' rendered by the run
\* of a click on 'Konfirmasi Simpan Data', the run of a click on 'Ya, Simpan
\* Data!' calls the update step with that prediction.
C24_ConfirmInvokesUpdate ==
  [][/\ "ya" \in ui.rendered
     /\ HasPrediction
     /\ call'.op \in {"ya", "update"}
     => /\ call'.op = "update"
        /\ nCalls' = nCalls + 1
        /\ call'.app = session_state["last_prediction"].app
        /\ call'.features = session_state["last_prediction"].features]_vars

\* C25: the new positive and negative counts the preview shows for each
\* feature of the pending prediction are the in-memory counts of that
\* feature after _update_app_data has run with the same prediction from the
\* state previewed.
C25_PreviewMatchesUpdate ==
  [][/\ call.op = "preview"
     /\ call'.op = "update"
     /\ call'.app = call.app /\ call'.features = call.features
     /\ call'.sentiment = call.sentiment
     => \A f \in DOMAIN call.stats :
          /\ call.stats[f].new_pos = GetCount(apps_data'[call.app], f, "positive")
          /\ call.stats[f].new_neg = GetCount(apps_data'[call.app], f, "negative")]_vars

\* a negative review of two features, one of them new to the application,
\* was previewed and then applied
C25_Witness ==
  /\ call.op = "update" /\ call.mutated /\ call.sentiment = "negative"
  /\ Len(call.features) >= 2
  /\ GetCount(apps_data[call.app], "kotoba", "negative") = 1
  /\ GetCount(apps_data[call.app], "kotoba", "positive") = 0
  /\ nCalls = 1

====
